---- MODULE Spec2Model ----
(***************************************************************************)
(* Model of the retrieval engine of the MCP fixer API                      *)
(* (src/mcp-fixer-api/app/rag.py), of the zip upload handler               *)
(* (src/mcp-fixer-api/app/server.py) and of the paragraph chunking shared   *)
(* with the workshop notebook (src/genai-hands-on-session3.py).            *)
(*                                                                         *)
(* Text is a sequence of characters, each character a one-element string   *)
(* (the two invisible characters the code strips are the tokens ZWSP and   *)
(* BOM).  Three specifications share the variables:                        *)
(*   SpecChunk  the chunking step applied to every bounded corpus          *)
(*   Spec       callers running get_kb and retrieve as threads             *)
(*   SpecSeq    the same callers, one call at a time                       *)
(*   SpecZip    concurrent fix_from_zip requests                           *)
(***************************************************************************)
EXTENDS Integers, Sequences, FiniteSets, TLC

VARIABLES
    \* chunking step
    corpusIn, chunksOut, chunkPc,
    \* the process: the knowledge-base directories; the KnowledgeBase objects
    \* constructed for each location, in construction order (an object is
    \* named by its location and its place in that order); _kb_cache
    disk, diskChanges, heap, cache,
    \* the installed faiss: whether search rejects k = 0, how it orders equal distances
    faissRejectsZeroK, tiePolicy,
    \* each caller: position, arguments, locals, result
    pc, loc, obj, ref, query, topk, qemb, labels, picked, result,
    \* fix_from_zip: settings.openai_api_key set or not, the files under /tmp/in,
    \* the files under settings.fixed_dir; each request: position, uploaded zip,
    \* the samples it gave fix_all, its response
    hasKey, tmpIn, outDir, zpc, upload, samples, response

chunkVars == <<corpusIn, chunksOut, chunkPc>>
envVars == <<disk, diskChanges, faissRejectsZeroK, tiePolicy>>
callVars == <<pc, loc, obj, ref, query, topk, qemb, labels, picked, result>>
kbVars == <<disk, diskChanges, heap, cache, faissRejectsZeroK, tiePolicy,
            pc, loc, obj, ref, query, topk, qemb, labels, picked, result>>
zipVars == <<hasKey, tmpIn, outDir, zpc, upload, samples, response>>
vars == <<chunkVars, kbVars, zipVars>>

----------------------------------------------------------------------------
(* Bounds *)

\* longest corpus given to the chunking step
MaxLen == 4
\* concurrent callers of get_kb / retrieve
NCallers == 2
\* largest top_k a caller passes
MaxK == 2
\* times the documents on disk change in one run
MaxDiskChanges == 1
\* requests to /api/v1/fix/zip in one run
NReq == 2

----------------------------------------------------------------------------
(* Text *)

NL == "\n"
ZWSP == "<U+200B>"
BOM == "<U+FEFF>"

\* what Python's \s and str.strip() treat as whitespace, among the characters used
Whitespace == {" ", "\t", NL, "\r", "\f"}

Min(a, b) == IF a <= b THEN a ELSE b

\* str.strip(): drop leading and trailing whitespace
Strip(s) ==
    LET keep == {i \in 1..Len(s) : s[i] \notin Whitespace}
    IN  IF keep = {} THEN <<>>
        ELSE LET first == CHOOSE i \in keep : \A j \in keep : i <= j
                 last  == CHOOSE i \in keep : \A j \in keep : j <= i
             IN  SubSeq(s, first, last)

\* The match of r'\n\s*\n' that starts at position i, as the position of its
\* last character (0: no match starts at i).  \s* is greedy: it takes the whole
\* whitespace run after s[i] and backs off to the last newline of that run.
MatchEnd(s, i) ==
    IF s[i] # NL THEN 0
    ELSE LET ends == {j \in (i+1)..Len(s) :
                        /\ s[j] = NL
                        /\ \A m \in (i+1)..j : s[m] \in Whitespace}
         IN  IF ends = {} THEN 0
             ELSE CHOOSE j \in ends : \A m \in ends : m <= j

\* re.split scanning from position i, the current piece starting at st
RECURSIVE SplitFrom(_, _, _)
SplitFrom(s, st, i) ==
    IF i > Len(s) THEN <<SubSeq(s, st, Len(s))>>
    ELSE IF MatchEnd(s, i) # 0
         THEN <<SubSeq(s, st, i - 1)>>
              \o SplitFrom(s, MatchEnd(s, i) + 1, MatchEnd(s, i) + 1)
         ELSE SplitFrom(s, st, i + 1)

\* re.split(r'\n\s*\n', s)
ReSplit(s) == SplitFrom(s, 1, 1)

\* the chunking step: re.split(r'\n\s*\n', corpus.strip())
Chunks(corpus) == ReSplit(Strip(corpus))

----------------------------------------------------------------------------
(* Paragraphs of a corpus, counted from its lines (the reference the       *)
(* chunking step is compared with)                                         *)

\* the lines of s: the pieces between newlines
RECURSIVE LinesFrom(_, _, _)
LinesFrom(s, st, i) ==
    IF i > Len(s) THEN <<SubSeq(s, st, Len(s))>>
    ELSE IF s[i] = NL THEN <<SubSeq(s, st, i - 1)>> \o LinesFrom(s, i + 1, i + 1)
         ELSE LinesFrom(s, st, i + 1)

Lines(s) == LinesFrom(s, 1, 1)

IsBlank(line) == \A i \in 1..Len(line) : line[i] \in Whitespace

\* the paragraphs: maximal runs of consecutive non-blank lines, each run joined
\* by single newlines again
RECURSIVE ParasFrom(_, _, _)
ParasFrom(ls, i, cur) ==
    IF i > Len(ls) THEN (IF cur = <<>> THEN <<>> ELSE <<cur>>)
    ELSE IF IsBlank(ls[i])
         THEN (IF cur = <<>> THEN <<>> ELSE <<cur>>) \o ParasFrom(ls, i + 1, <<>>)
         ELSE ParasFrom(ls, i + 1,
                        IF cur = <<>> THEN ls[i] ELSE cur \o <<NL>> \o ls[i])

Paragraphs(s) == ParasFrom(Lines(s), 1, <<>>)

----------------------------------------------------------------------------
(* Knowledge-base directories                                              *)

Locs == {"kbA", "kbB"}

R1Md == <<"r", "1", ".", "m", "d">>
R2Md == <<"r", "2", ".", "m", "d">>
NotesTxt == <<"n", ".", "t", "x", "t">>

\* the characters of the file names, in code-point order (sorted() compares by it)
CodeOrder == <<".", "1", "2", "d", "m", "n", "r", "t", "x">>
Code(ch) == CHOOSE i \in 1..Len(CodeOrder) : CodeOrder[i] = ch

\* a < b for Python strings
StrLess(a, b) ==
    \E i \in 1..(Min(Len(a), Len(b)) + 1) :
        /\ \A j \in 1..(i - 1) : a[j] = b[j]
        /\ \/ i = Len(a) + 1 /\ i <= Len(b)
           \/ i <= Len(a) /\ i <= Len(b) /\ Code(a[i]) < Code(b[i])

\* sorted(names)
RECURSIVE Sorted(_)
Sorted(names) ==
    IF names = {} THEN <<>>
    ELSE LET least == CHOOSE n \in names : \A m \in names \ {n} : StrLess(n, m)
         IN  <<least>> \o Sorted(names \ {least})

\* f.endswith(".md")
EndsWithMd(f) == Len(f) >= 3 /\ SubSeq(f, Len(f) - 2, Len(f)) = <<".", "m", "d">>

NoDir == [exists |-> FALSE, files |-> <<>>]
Dir(files) == [exists |-> TRUE, files |-> files]

DirTwoDocs ==
    Dir((R2Md :> <<"b", "b">>) @@ (R1Md :> <<"a", ZWSP, NL, " ", NL, "a", "b">>)
        @@ (NotesTxt :> <<"a">>))
DirEmptyDoc == Dir(R1Md :> <<>>)
DirNotesOnly == Dir(NotesTxt :> <<"a">>)

\* the directories a location may hold: none; one without any .md file; one
\* whose only .md file is empty; two documents (one of two paragraphs, carrying
\* a zero-width space) beside a file that is not .md
DirStates == {NoDir, DirNotesOnly, DirEmptyDoc, DirTwoDocs}

----------------------------------------------------------------------------
(* KnowledgeBase (rag.py lines 7-38)                                       *)

\* the f-string of line 22: "\n\n# Source: {f}\n\n{content}"
SourceEntry(f, content) ==
    <<NL, NL, "#", " ", "S", "o", "u", "r", "c", "e", ":", " ">> \o f
    \o <<NL, NL>> \o content

RECURSIVE Concat(_, _)
Concat(fs, files) ==
    IF fs = <<>> THEN <<>>
    ELSE SourceEntry(Head(fs), files[Head(fs)]) \o Concat(Tail(fs), files)

\* line 16: the eligible files, sorted
Eligible(dir) == Sorted({f \in DOMAIN dir.files : EndsWithMd(f)})

\* _load_files (lines 15-23)
LoadFiles(dir) == Concat(Eligible(dir), dir.files)

\* SentenceTransformer.encode of one text: a deterministic vector of fixed dimension
\* (here: how many "a" and how many "b" the text holds)
Count(text, ch) == Cardinality({i \in 1..Len(text) : text[i] = ch})
Embed(text) == <<Count(text, "a"), Count(text, "b")>>

\* encode of a batch: one vector per text, in order
Encode(texts) == [i \in 1..Len(texts) |-> Embed(texts[i])]

NoIndex == [d |-> 0, vectors |-> <<>>]

\* lines 30-32: IndexFlatL2(emb.shape[1]) and add(emb)
BuildIndex(emb) == [d |-> Len(emb[1]), vectors |-> emb]

\* the object after lines 9-12
Fresh(kb_dir) == [kb_dir |-> kb_dir, chunks |-> <<>>, model |-> "None", index |-> NoIndex]

\* what can go wrong in the environment during one construction
Faults == {"none", "read", "model", "encode", "index"}

\* the exception _load raises for directory dir under fault, "" when it raises none
LoadError(dir, fault) ==
    IF ~dir.exists THEN "FileNotFoundError"
    ELSE IF fault = "read" /\ Eligible(dir) # <<>> THEN "OSError"
    ELSE IF fault = "model" THEN "EmbeddingModelError"
    ELSE IF fault = "encode" THEN "EncodeError"
    ELSE IF fault = "index" THEN "IndexError"
    ELSE ""

\* _load (lines 25-32): the object as the construction leaves it, each field as
\* far as the statements before the failure set it
Load(kb_dir, dir, fault) ==
    LET e      == LoadError(dir, fault)
        chunks == Chunks(LoadFiles(dir))
    IN  IF e \in {"FileNotFoundError", "OSError"} THEN Fresh(kb_dir)
        ELSE IF e = "EmbeddingModelError"
             THEN [Fresh(kb_dir) EXCEPT !.chunks = chunks]
        ELSE IF e \in {"EncodeError", "IndexError"}
             THEN [Fresh(kb_dir) EXCEPT !.chunks = chunks, !.model = "loaded"]
        ELSE [kb_dir |-> kb_dir, chunks |-> chunks, model |-> "loaded",
              index |-> BuildIndex(Encode(chunks))]

FullyBuilt(kb) == kb.model = "loaded" /\ kb.index # NoIndex

\* squared L2 distance
RECURSIVE SumSq(_, _, _)
SumSq(u, v, i) ==
    IF i > Len(u) THEN 0 ELSE (u[i] - v[i]) * (u[i] - v[i]) + SumSq(u, v, i + 1)
L2(u, v) == SumSq(u, v, 1)

\* IndexFlatL2.search for one query: k labels, the min(k, ntotal) nearest stored
\* positions (0-based) by ascending distance, then -1 for every missing neighbour.
\* Equal distances come out in the order the installed library gives them.
Search(index, q, k, ties) ==
    LET n == Len(index.vectors)
        dist(i) == L2(index.vectors[i], q)
        before(i, j) ==
            \/ dist(i) < dist(j)
            \/ dist(i) = dist(j) /\ (IF ties = "asc" THEN i < j ELSE i > j)
        rank(i) == Cardinality({j \in 1..n : before(j, i)})
        at(r) == CHOOSE i \in 1..n : rank(i) = r - 1
    IN  [r \in 1..k |-> IF r <= n THEN at(r) - 1 ELSE -1]

\* self._chunks[i]: a negative i counts from the end of the list
PyIndex(list, i) == IF i >= 0 THEN list[i + 1] ELSE list[Len(list) + i + 1]

\* "\n\n".join(parts)
RECURSIVE Join(_)
Join(parts) ==
    IF parts = <<>> THEN <<>>
    ELSE IF Len(parts) = 1 THEN parts[1]
    ELSE parts[1] \o <<NL, NL>> \o Join(Tail(parts))

\* .replace('\u200b', '').replace('\ufeff', '')
Sanitize(text) == SelectSeq(text, LAMBDA ch : ch \notin {ZWSP, BOM})

\* line 37, the list comprehension
Resolve(chunks, idx) == [r \in 1..Len(idx) |-> PyIndex(chunks, idx[r])]

----------------------------------------------------------------------------
(* Callers of get_kb (lines 40-44) and retrieve (lines 34-38)              *)

Callers == 1..NCallers
NoKB == 0
Queries == {<<"a">>, <<"b", "b">>}

Idle == [c \in Callers |-> "idle"]

\* no caller is in a call
CallersIdle ==
    /\ pc = Idle
    /\ loc = [c \in Callers |-> ""]
    /\ obj = [c \in Callers |-> NoKB]
    /\ ref = [c \in Callers |-> NoKB]
    /\ query = [c \in Callers |-> <<>>]
    /\ topk = [c \in Callers |-> 0]
    /\ qemb = [c \in Callers |-> <<>>]
    /\ labels = [c \in Callers |-> <<>>]
    /\ picked = [c \in Callers |-> <<>>]
    /\ result = [c \in Callers |-> <<>>]

\* the process after import: _kb_cache = {} (line 40), no KnowledgeBase yet.
\* get_kb never calls into faiss search, so one faiss stands for all here.
InitKB ==
    /\ disk \in [Locs -> DirStates]
    /\ diskChanges = 0
    /\ heap = [l \in Locs |-> <<>>]
    /\ cache = [l \in Locs |-> NoKB]
    /\ faissRejectsZeroK = TRUE
    /\ tiePolicy = "asc"
    /\ CallersIdle

\* get_kb with a test that never finds the key: every call builds
GetCheckAlwaysBuilds(c) ==
    /\ pc[c] = "idle"
    /\ \E l \in Locs : loc' = [loc EXCEPT ![c] = l]
    /\ pc' = [pc EXCEPT ![c] = "get_build"]
    /\ UNCHANGED <<chunkVars, zipVars, envVars, heap, cache, obj, ref, query, topk,
                   qemb, labels, picked, result>>

\* a caller calls get_kb(l); line 42: if kb_dir not in _kb_cache
GetCheck(c) ==
    /\ pc[c] = "idle"
    /\ \E l \in Locs :
         /\ loc' = [loc EXCEPT ![c] = l]
         /\ pc' = [pc EXCEPT ![c] = IF cache[l] = NoKB THEN "get_build"
                                                      ELSE "get_return"]
    /\ UNCHANGED <<chunkVars, zipVars, envVars, heap, cache, obj, ref, query, topk, qemb,
                   labels, picked, result>>

\* get_kb that registers the object before it is loaded: a construction that
\* fails leaves the half-built object in the cache
ConstructCachingFailure(c) ==
    /\ pc[c] = "get_build"
    /\ \E fault \in Faults :
         LET e == LoadError(disk[loc[c]], fault)
         IN  /\ heap' = [heap EXCEPT ![loc[c]] =
                           Append(@, Load(loc[c], disk[loc[c]], fault))]
             /\ IF e = ""
                THEN /\ obj' = [obj EXCEPT ![c] = Len(heap[loc[c]]) + 1]
                     /\ pc' = [pc EXCEPT ![c] = "get_store"]
                     /\ cache' = cache
                ELSE /\ obj' = obj
                     /\ pc' = [pc EXCEPT ![c] = "get_raised"]
                     /\ cache' = [cache EXCEPT ![loc[c]] = Len(heap[loc[c]]) + 1]
    /\ UNCHANGED <<chunkVars, zipVars, envVars, loc, ref, query, topk, qemb, labels,
                   picked, result>>

\* line 43, right-hand side: KnowledgeBase(kb_dir).  The object is the caller's
\* own until it is stored; an exception leaves get_kb at once and the object
\* under construction, referenced by nobody, is gone with it.
Construct(c) ==
    /\ pc[c] = "get_build"
    /\ \E fault \in Faults :
         LET e == LoadError(disk[loc[c]], fault)
         IN  IF e = ""
             THEN /\ heap' = [heap EXCEPT ![loc[c]] =
                                        Append(@, Load(loc[c], disk[loc[c]], fault))]
                  /\ obj' = [obj EXCEPT ![c] = Len(heap[loc[c]]) + 1]
                  /\ pc' = [pc EXCEPT ![c] = "get_store"]
             ELSE /\ UNCHANGED <<heap, obj>>
                  /\ pc' = [pc EXCEPT ![c] = "get_raised"]
    /\ UNCHANGED <<chunkVars, zipVars, envVars, cache, loc, ref, query, topk, qemb, labels,
                   picked, result>>

\* line 43, the assignment: _kb_cache[kb_dir] = <the new object>, which takes
\* the object off the caller's evaluation stack
Store(c) ==
    /\ pc[c] = "get_store"
    /\ cache' = [cache EXCEPT ![loc[c]] = obj[c]]
    /\ obj' = [obj EXCEPT ![c] = NoKB]
    /\ pc' = [pc EXCEPT ![c] = "get_return"]
    /\ UNCHANGED <<chunkVars, zipVars, envVars, heap, loc, ref, query, topk, qemb,
                   labels, picked, result>>

\* line 44: return _kb_cache[kb_dir]
Return(c) ==
    /\ pc[c] = "get_return"
    /\ ref' = [ref EXCEPT ![c] = cache[loc[c]]]
    /\ pc' = [pc EXCEPT ![c] = "have_kb"]
    /\ UNCHANGED <<chunkVars, zipVars, envVars, heap, cache, loc, obj, query, topk, qemb,
                   labels, picked, result>>

\* the caller calls retrieve(q, k) on the instance get_kb returned;
\* line 35: qemb = self._model.encode([query])
RetrieveEncode(c) ==
    /\ pc[c] = "have_kb"
    /\ \E q \in Queries, k \in 0..MaxK :
         /\ query' = [query EXCEPT ![c] = q]
         /\ topk' = [topk EXCEPT ![c] = k]
         /\ qemb' = [qemb EXCEPT ![c] = Encode(<<q>>)]
    /\ pc' = [pc EXCEPT ![c] = "ret_search"]
    /\ UNCHANGED <<chunkVars, zipVars, envVars, heap, cache, loc, obj, ref, labels, picked,
                   result>>

\* line 36: _, idx = self._index.search(np.array(qemb), top_k); labels is idx[0]
RetrieveSearch(c) ==
    /\ pc[c] = "ret_search"
    /\ IF topk[c] = 0 /\ faissRejectsZeroK
       THEN /\ pc' = [pc EXCEPT ![c] = "ret_raised"]
            /\ labels' = labels
       ELSE /\ labels' = [labels EXCEPT ![c] =
                            Search(heap[loc[c]][ref[c]].index, qemb[c][1], topk[c], tiePolicy)]
            /\ pc' = [pc EXCEPT ![c] = "ret_join"]
    /\ UNCHANGED <<chunkVars, zipVars, envVars, heap, cache, loc, obj, ref, query, topk,
                   qemb, picked, result>>

\* retrieve that assigns the resolved list to self._chunks instead of a local
RetrieveJoinOverwritingChunks(c) ==
    /\ pc[c] = "ret_join"
    /\ picked' = [picked EXCEPT ![c] = Resolve(heap[loc[c]][ref[c]].chunks, labels[c])]
    /\ heap' = [heap EXCEPT ![loc[c]][ref[c]].chunks = picked'[c]]
    /\ result' = [result EXCEPT ![c] = Sanitize(Join(picked'[c]))]
    /\ pc' = [pc EXCEPT ![c] = "ret_done"]
    /\ UNCHANGED <<chunkVars, zipVars, envVars, cache, loc, obj, ref, query, topk,
                   qemb, labels>>

\* lines 37-38: resolve the labels, join, strip the invisible characters, return
RetrieveJoin(c) ==
    /\ pc[c] = "ret_join"
    /\ picked' = [picked EXCEPT ![c] = Resolve(heap[loc[c]][ref[c]].chunks, labels[c])]
    /\ result' = [result EXCEPT ![c] = Sanitize(Join(picked'[c]))]
    /\ pc' = [pc EXCEPT ![c] = "ret_done"]
    /\ UNCHANGED <<chunkVars, zipVars, envVars, heap, cache, loc, obj, ref, query, topk,
                   qemb, labels>>

\* the caller has used the result (or the exception) of retrieve: the frame of
\* the call goes away, the caller still holds the instance
Discard(c) ==
    /\ pc[c] \in {"ret_done", "ret_raised"}
    /\ pc' = [pc EXCEPT ![c] = "have_kb"]
    /\ query' = [query EXCEPT ![c] = <<>>]
    /\ topk' = [topk EXCEPT ![c] = 0]
    /\ qemb' = [qemb EXCEPT ![c] = <<>>]
    /\ labels' = [labels EXCEPT ![c] = <<>>]
    /\ picked' = [picked EXCEPT ![c] = <<>>]
    /\ result' = [result EXCEPT ![c] = <<>>]
    /\ UNCHANGED <<chunkVars, zipVars, envVars, heap, cache, loc, obj, ref>>

\* the caller drops the instance (or the exception of get_kb)
Release(c) ==
    /\ pc[c] \in {"have_kb", "get_raised"}
    /\ pc' = [pc EXCEPT ![c] = "idle"]
    /\ loc' = [loc EXCEPT ![c] = ""]
    /\ ref' = [ref EXCEPT ![c] = NoKB]
    /\ UNCHANGED <<chunkVars, zipVars, envVars, heap, cache, obj, query, topk, qemb, labels,
                   picked, result>>

\* somebody edits, adds or removes the documents of a location
ChangeDocs ==
    /\ diskChanges < MaxDiskChanges
    /\ diskChanges' = diskChanges + 1
    /\ \E l \in Locs, d \in DirStates :
         /\ d # disk[l]
         /\ disk' = [disk EXCEPT ![l] = d]
    /\ UNCHANGED <<chunkVars, zipVars, heap, cache, faissRejectsZeroK, tiePolicy, callVars>>

\* the caller is inside get_kb
InCall(c) == pc[c] \in {"get_build", "get_store", "get_return"}

\* the steps of get_kb and of its caller
GetStep(c) ==
    \/ GetCheck(c)
    \/ Construct(c)
    \/ Store(c)
    \/ Return(c)
    \/ Release(c)

\* the steps of retrieve and of its caller
RetrieveStep(c) ==
    \/ RetrieveEncode(c)
    \/ RetrieveSearch(c)
    \/ RetrieveJoin(c)
    \/ Discard(c)

----------------------------------------------------------------------------
(* fix_from_zip (server.py lines 29-57).  The handler is a coroutine: it    *)
(* runs on the event loop without interruption except at its one await,     *)
(* the read of the upload (line 37).  A file is its stem, its extension     *)
(* and the request whose upload it came from.                              *)

Requests == 1..NReq

File(stem, ext) == [stem |-> stem, ext |-> ext]

\* what a client may upload: a zip of one Java file, of another, of a Java file
\* beside a text file, of no Java file
Uploads ==
    { {File("A", "java")}, {File("B", "java")},
      {File("A", "java"), File("notes", "txt")}, {File("notes", "txt")} }

\* zf.extractall(tmp_root), line 38: every member is written under the directory,
\* over a file of the same path
ExtractAll(dir, zip, r) ==
    {f \in dir : [stem |-> f.stem, ext |-> f.ext] \notin zip}
    \cup {[stem |-> m.stem, ext |-> m.ext, by |-> r] : m \in zip}

\* lines 39-41: samples[p.stem] = p.read_text() for p in tmp_root.rglob("*.java")
JavaSamples(dir) == {[stem |-> f.stem, by |-> f.by] : f \in {g \in dir : g.ext = "java"}}

\* fix_all (app/fixer.py): the fixed files, one for each sample
FixAll(smp) == {[name |-> x.stem, fixedFrom |-> x.by] : x \in smp}

NoResponse == [status |-> 0, files |-> {}]

ZipOff ==
    /\ hasKey = TRUE
    /\ tmpIn = {}
    /\ outDir = {}
    /\ zpc = [r \in Requests |-> "off"]
    /\ upload = [r \in Requests |-> {}]
    /\ samples = [r \in Requests |-> {}]
    /\ response = [r \in Requests |-> NoResponse]

InitZip ==
    /\ hasKey \in BOOLEAN
    /\ tmpIn = {}
    /\ outDir = {}
    /\ zpc = [r \in Requests |-> "waiting"]
    /\ upload = [r \in Requests |-> {}]
    /\ samples = [r \in Requests |-> {}]
    /\ response = [r \in Requests |-> NoResponse]

\* the request arrives; lines 31-37 up to the await: the key check, rmtree and
\* mkdir of /tmp/in, then the handler waits for the upload
Begin(r) ==
    /\ zpc[r] = "waiting"
    /\ \E u \in Uploads : upload' = [upload EXCEPT ![r] = u]
    /\ IF ~hasKey
       THEN /\ response' = [response EXCEPT ![r] = [status |-> 400, files |-> {}]]
            /\ zpc' = [zpc EXCEPT ![r] = "done"]
            /\ tmpIn' = tmpIn
       ELSE /\ tmpIn' = {}
            /\ zpc' = [zpc EXCEPT ![r] = "reading"]
            /\ response' = response
    /\ UNCHANGED <<chunkVars, kbVars, hasKey, outDir, samples>>

\* the upload is read; lines 37-57: extract, collect the Java files, fix_all,
\* rewrite fixed_dir, answer with the zip of the fixed files
Finish(r) ==
    /\ zpc[r] = "reading"
    /\ LET dir == ExtractAll(tmpIn, upload[r], r)
           smp == JavaSamples(dir)
       IN  /\ tmpIn' = dir
           /\ IF smp = {}
              THEN /\ response' = [response EXCEPT ![r] = [status |-> 400, files |-> {}]]
                   /\ UNCHANGED <<samples, outDir>>
              ELSE /\ samples' = [samples EXCEPT ![r] = smp]
                   /\ outDir' = FixAll(smp)
                   /\ response' = [response EXCEPT ![r] =
                                     [status |-> 200, files |-> FixAll(smp)]]
    /\ zpc' = [zpc EXCEPT ![r] = "done"]
    /\ UNCHANGED <<chunkVars, kbVars, hasKey, upload>>

----------------------------------------------------------------------------
(* The corpora given to the chunking step                                  *)

ChunkAlphabet == {"a", "b", " ", NL}

RECURSIVE TextsUpTo(_, _)
TextsUpTo(alphabet, n) ==
    IF n = 0 THEN {<<>>}
    ELSE LET shorter == TextsUpTo(alphabet, n - 1)
         IN  shorter \cup {Append(t, ch) : t \in shorter, ch \in alphabet}

----------------------------------------------------------------------------
(* Specifications                                                          *)

ChunkIdle ==
    /\ corpusIn = <<>>
    /\ chunksOut = <<>>
    /\ chunkPc = "off"

\* the registry left out of a specification
KBOff ==
    /\ disk = [l \in Locs |-> NoDir]
    /\ diskChanges = 0
    /\ heap = [l \in Locs |-> <<>>]
    /\ cache = [l \in Locs |-> NoKB]
    /\ faissRejectsZeroK = TRUE
    /\ tiePolicy = "asc"
    /\ CallersIdle

Init == ChunkIdle /\ InitKB /\ ZipOff

\* callers of get_kb are threads: any caller may take its next step at any
\* time; the documents stay as they are
Next == \E c \in Callers : GetStep(c)

Spec == Init /\ [][Next]_vars

\* the same threads, while somebody changes the documents
NextDocs == ChangeDocs \/ \E c \in Callers : GetStep(c)

SpecDocs == Init /\ [][NextDocs]_vars

\* calls made one after the other: a caller moves only while no other caller
\* is inside get_kb
NextSeq ==
    \/ ChangeDocs
    \/ \E c \in Callers :
         /\ \A d \in Callers \ {c} : ~InCall(d)
         /\ GetStep(c)

SpecSeq == Init /\ [][NextSeq]_vars

\* every caller holds the instance get_kb("kbA") built from a directory d and
\* cached; the callers run retrieve on it as threads
InitRetrieve ==
    /\ ChunkIdle
    /\ ZipOff
    /\ \E d \in DirStates :
         /\ LoadError(d, "none") = ""
         /\ disk = [l \in Locs |-> IF l = "kbA" THEN d ELSE NoDir]
         /\ heap = [l \in Locs |-> IF l = "kbA" THEN <<Load("kbA", d, "none")>>
                                                  ELSE <<>>]
    /\ diskChanges = 0
    /\ cache = [l \in Locs |-> IF l = "kbA" THEN 1 ELSE NoKB]
    /\ faissRejectsZeroK \in BOOLEAN
    /\ tiePolicy \in {"asc", "desc"}
    /\ pc = [c \in Callers |-> "have_kb"]
    /\ loc = [c \in Callers |-> "kbA"]
    /\ obj = [c \in Callers |-> NoKB]
    /\ ref = [c \in Callers |-> 1]
    /\ query = [c \in Callers |-> <<>>]
    /\ topk = [c \in Callers |-> 0]
    /\ qemb = [c \in Callers |-> <<>>]
    /\ labels = [c \in Callers |-> <<>>]
    /\ picked = [c \in Callers |-> <<>>]
    /\ result = [c \in Callers |-> <<>>]

NextRetrieve == \E c \in Callers : RetrieveStep(c)

SpecRetrieve == InitRetrieve /\ [][NextRetrieve]_vars

InitChunk ==
    /\ corpusIn \in TextsUpTo(ChunkAlphabet, MaxLen)
    /\ chunksOut = <<>>
    /\ chunkPc = "ready"
    /\ KBOff
    /\ ZipOff

\* rag.py line 27 / notebook line 61
SplitCorpus ==
    /\ chunkPc = "ready"
    /\ chunksOut' = Chunks(corpusIn)
    /\ chunkPc' = "done"
    /\ UNCHANGED <<corpusIn, kbVars, zipVars>>

NextChunk == SplitCorpus

SpecChunk == InitChunk /\ [][NextChunk]_vars

\* requests served by one event loop: handlers interleave at the await
NextZip == \E r \in Requests : Begin(r) \/ Finish(r)

InitZipOnly == ChunkIdle /\ KBOff /\ InitZip

SpecZip == InitZipOnly /\ [][NextZip]_vars

----------------------------------------------------------------------------
(* Claims                                                                  *)

Holding(c) == pc[c] = "have_kb"

\* the instance a caller holds or retrieves from
KbOf(c) == heap[loc[c]][ref[c]]

\* C1: when callers race on the first get_kb of a location, one KnowledgeBase
\* is constructed for it and all of them receive that same instance.
C1_OneConstructionSameInstance ==
    /\ \A l \in Locs : Len(heap[l]) <= 1
    /\ \A c, d \in Callers :
         (Holding(c) /\ Holding(d) /\ loc[c] = loc[d]) => ref[c] = ref[d]

\* C2: with calls made one after the other, a location is constructed at most
\* once, every call that returns hands out that one cached instance, built for
\* the location asked for, and an entry, once stored, is changed by no later
\* call (neither for its own location nor for another).
C2_Inv ==
    /\ \A l \in Locs : Len(heap[l]) <= 1
    /\ \A c \in Callers :
         Holding(c) => /\ ref[c] # NoKB
                       /\ ref[c] = cache[loc[c]]
                       /\ KbOf(c).kb_dir = loc[c]

C2_Step ==
    \A l \in Locs :
        /\ cache[l] # NoKB => cache'[l] = cache[l]
        /\ cache'[l] # cache[l] => \E c \in Callers : pc[c] = "get_store" /\ loc[c] = l

C2_SequentialGetIsIdempotent == [] C2_Inv /\ [][C2_Step]_vars

\* two callers hold the one instance of a location: the later call found it cached
C2_Witness ==
    \E c, d \in Callers :
        /\ c # d /\ Holding(c) /\ Holding(d)
        /\ loc[c] = loc[d] /\ ref[c] = ref[d]
        /\ \E l \in Locs : l # loc[c] /\ cache[l] # NoKB

\* C3: a construction that fails leaves get_kb by the exception, and that call
\* writes nothing into the registry and keeps no object; every entry of the
\* registry is a fully built instance; a call that finds no entry constructs,
\* whatever failed before.
C3_Inv ==
    \A l \in Locs :
        cache[l] # NoKB => /\ cache[l] \in 1..Len(heap[l])
                           /\ FullyBuilt(heap[l][cache[l]])

C3_Step ==
    \A c \in Callers :
        /\ (pc[c] = "get_build" /\ pc'[c] # "get_build") =>
              \/ /\ pc'[c] = "get_raised"
                 /\ cache' = cache
                 /\ heap' = heap
              \/ /\ pc'[c] = "get_store"
                 /\ disk[loc[c]].exists
                 /\ FullyBuilt(heap'[loc[c]][obj'[c]])
        /\ (pc[c] = "idle" /\ pc'[c] # "idle" /\ cache[loc'[c]] = NoKB) =>
              pc'[c] = "get_build"

C3_FailedBuildIsNotCached == [] C3_Inv /\ [][C3_Step]_vars

\* a call failed although the directory is there, and the location has no entry
C3_Witness ==
    \E c \in Callers :
        /\ pc[c] = "get_raised"
        /\ disk[loc[c]].exists
        /\ cache[loc[c]] = NoKB

\* C4: no KnowledgeBase is built over zero eligible documents: none has the
\* single empty chunk that an empty corpus splits into.
C4_NoDegenerateKnowledgeBase ==
    \A l \in Locs : \A i \in 1..Len(heap[l]) : heap[l][i].chunks # << <<>> >>

\* C5: retrieve joins exactly min(k, N) chunks, each resolved from a distinct
\* label in 0..N-1, in non-decreasing distance from the query.
C5_RetrieveJoinsMinKN ==
    \A c \in Callers :
        pc[c] = "ret_done" =>
            LET kb == KbOf(c)
                n  == Len(kb.chunks)
                d(r) == L2(kb.index.vectors[labels[c][r] + 1], qemb[c][1])
            IN  /\ Len(picked[c]) = Min(topk[c], n)
                /\ \A r \in 1..Len(labels[c]) :
                     /\ labels[c][r] \in 0..(n - 1)
                     /\ picked[c][r] = kb.chunks[labels[c][r] + 1]
                /\ \A r, t \in 1..Len(labels[c]) :
                     /\ r # t => labels[c][r] # labels[c][t]
                     /\ r < t => d(r) <= d(t)

\* C6: retrieve with k = 0 returns the empty string.
C6_ZeroKReturnsEmpty ==
    \A c \in Callers :
        (pc[c] \in {"ret_done", "ret_raised"} /\ topk[c] = 0) =>
            pc[c] = "ret_done" /\ result[c] = <<>>

\* what retrieve(q, k) returns on instance kb when nothing else runs
RetrieveAlone(kb, q, k) ==
    Sanitize(Join(Resolve(kb.chunks, Search(kb.index, Embed(q), k, tiePolicy))))

\* C7: no step of retrieve changes a KnowledgeBase or the registry, and a call
\* that interleaves with other callers' calls on the same instance ends as it
\* would alone: with the same string, or with the same exception.
C7_Inv ==
    \A c \in Callers :
        /\ pc[c] = "ret_done" => result[c] = RetrieveAlone(KbOf(c), query[c], topk[c])
        /\ pc[c] = "ret_raised" => topk[c] = 0 /\ faissRejectsZeroK

C7_Step ==
    (\E c \in Callers : pc[c] \in {"have_kb", "ret_search", "ret_join"} /\ pc'[c] # pc[c])
        => UNCHANGED <<heap, cache>>

C7_RetrieveIsReadOnly == [] C7_Inv /\ [][C7_Step]_vars

\* one caller has its result while another is in the middle of retrieve on the
\* same instance
C7_Witness ==
    \E c, d \in Callers :
        /\ c # d /\ loc[c] = loc[d] /\ ref[c] = ref[d]
        /\ pc[c] = "ret_done" /\ result[c] # <<>>
        /\ pc[d] = "ret_join"

\* C8: once a get_kb(l) has returned, the entry of l stays the same instance,
\* holding the chunks it was loaded with, whatever happens to the documents.
C8_Step ==
    \A l \in Locs :
        (cache[l] # NoKB /\ \E c \in Callers : Holding(c) /\ loc[c] = l) =>
            /\ cache'[l] = cache[l]
            /\ heap'[l][cache'[l]].chunks = heap[l][cache[l]].chunks

C8_EntryNeverReplaced == [][C8_Step]_vars

\* C9: the chunking step returns the paragraphs of the corpus: as many chunks
\* as paragraphs, none empty, in the order of the paragraphs.
C9_ChunksAreParagraphs ==
    chunkPc = "done" =>
        LET paras == Paragraphs(corpusIn)
        IN  /\ Len(chunksOut) = Len(paras)
            /\ \A i \in 1..Len(chunksOut) :
                 /\ chunksOut[i] # <<>>
                 /\ i <= Len(paras) => Strip(chunksOut[i]) = Strip(paras[i])

\* C10: the samples a request gives fix_all, and the files it answers with,
\* come from its own upload only.
C10_RequestIsolation ==
    \A r \in Requests :
        /\ \A x \in samples[r] : x.by = r
        /\ \A f \in response[r].files : f.fixedFrom = r

====
